---- MODULE Spec2Model ----
(***************************************************************************)
(* A model of the AMC booking client: the three React context providers   *)
(* (MachineContext, BookingContext, AuthContext) and the tables of the     *)
(* data store they read and write.                                         *)
(*                                                                         *)
(* The data store is the row store the providers call: insert, update and  *)
(* delete of rows addressed by their primary key `id`, and select of a     *)
(* whole table.  A call may fail, and then leaves the table as it was.     *)
(* Identifiers are strings; they are modelled as sequences of characters   *)
(* so that formatting (padStart) and parsing (substring, parseInt) are     *)
(* computed as the code computes them.                                     *)
(***************************************************************************)
EXTENDS Integers, Sequences, FiniteSets, TLC

(***************************************************************************)
(* Bounds of the model.                                                    *)
(***************************************************************************)
NClients == 2
MaxMachines == 2
MaxTypes == 2
MaxName == 1
MaxIssued == 2
MaxBookings == 2
MaxTime == 2
MaxCost == 2
MaxTokens == 1
NSeedUsers == 2
MaxUsers == 3
MaxAudit == 2
MaxFeed == 2
MaxLoads == 2

Clients == 1..NClients
Names == 1..MaxName

VARIABLES
    tblMachineTypes,  \* store table machine_types: a set of rows
    tblMachines,      \* store table machines: a set of rows
    machineTypes,     \* per client: useState<MachineType[]>
    machines,         \* per client: useState<Machine[]>
    tblBookings,      \* store table bookings: a set of rows
    nextBookingId,    \* the id the store gives the next booking row
    bookings,         \* per client: useState<Booking[]>
    tblProfiles,      \* store table profiles: a set of rows
    authUsers,        \* the accounts of the authentication service
    nextUserId,       \* the id the authentication service gives the next account
    user,             \* per client: useState<User | null>
    supabaseUser,     \* per client: useState<SupabaseUser | null>
    profileLoads,     \* per client: the loadUserProfile selects in flight
    lastCall,         \* the outcome of the last provider call
    issuedMachineIds, \* history: the ids under which a machine was inserted
    issuedTypeIds,    \* history: the ids under which a category was inserted
    tblAuditLogs,     \* store table audit_logs: a set of rows
    nextAuditId,      \* the id the store gives the next audit row
    auditLogs,        \* per client: useState<AuditLog[]>
    returned,         \* the value the last query resolved with
    feed,             \* per client: the change notifications not yet delivered
    bookingLoads,     \* per client: the responses of loadBookings selects in flight
    pendingCall,      \* per client: the booking mutation awaiting its response
    dataLoads,        \* per client: the loadData calls and how far each has got
    loadFailed        \* history: some select of a refresh has failed

machineVars == <<tblMachineTypes, tblMachines, machineTypes, machines,
                 issuedMachineIds, issuedTypeIds>>
bookingVars == <<tblBookings, nextBookingId, bookings>>
authVars == <<tblProfiles, authUsers, nextUserId, user, supabaseUser, profileLoads>>
auditVars == <<tblAuditLogs, nextAuditId, auditLogs>>
syncVars == <<feed, bookingLoads, pendingCall, dataLoads, loadFailed>>
otherVars == <<auditVars, returned, syncVars>>
vars == <<machineVars, bookingVars, authVars, lastCall, otherVars>>

(***************************************************************************)
(* Strings.                                                                *)
(***************************************************************************)
Digits == <<"0", "1", "2", "3", "4", "5", "6", "7", "8", "9">>
Alphabet == Digits \o <<"C", "M">>

IsDigit(ch) == \E i \in 1..Len(Digits) : Digits[i] = ch
DigitVal(ch) == (CHOOSE i \in 1..Len(Digits) : Digits[i] = ch) - 1
CharCode(ch) == CHOOSE i \in 1..Len(Alphabet) : Alphabet[i] = ch

\* parseInt of a string that does not start with a digit.  The alphabet has
\* no sign and no blank, so parseInt never yields a negative number and -1
\* is free to stand for NaN.
NaN == -1

RECURSIVE LeadingDigits(_, _)
LeadingDigits(s, acc) ==
    IF s = <<>> \/ ~IsDigit(Head(s)) THEN acc
    ELSE LeadingDigits(Tail(s), 10 * acc + DigitVal(Head(s)))

\* JavaScript parseInt(s): the value of the longest prefix of digits, NaN
\* when there is none.
parseInt(s) == IF s = <<>> \/ ~IsDigit(Head(s)) THEN NaN ELSE LeadingDigits(s, 0)

\* JavaScript String(n) for a natural number n.
RECURSIVE String(_)
String(n) == IF n < 10 THEN <<Digits[n + 1]>>
             ELSE String(n \div 10) \o <<Digits[(n % 10) + 1]>>

\* JavaScript s.padStart(w, ch): pads on the left up to length w, and
\* returns s itself when it is already that long or longer.
RECURSIVE padStart(_, _, _)
padStart(s, w, ch) == IF Len(s) >= w THEN s ELSE padStart(<<ch>> \o s, w, ch)

\* JavaScript s.substring(i): from the 0-based index i to the end.
substring(s, i) == SubSeq(s, i + 1, Len(s))

\* JavaScript s.replace(ch, ''): the first occurrence of ch removed.
RECURSIVE replaceFirst(_, _)
replaceFirst(s, ch) ==
    IF s = <<>> THEN <<>>
    ELSE IF Head(s) = ch THEN Tail(s)
    ELSE <<Head(s)>> \o replaceFirst(Tail(s), ch)

\* The comparison a > b of JavaScript numbers, false when a is NaN.
NumGreater(a, b) == a # NaN /\ a > b

RECURSIVE StrLess(_, _)
StrLess(s, t) ==
    IF t = <<>> THEN FALSE
    ELSE IF s = <<>> THEN TRUE
    ELSE IF Head(s) # Head(t) THEN CharCode(Head(s)) < CharCode(Head(t))
    ELSE StrLess(Tail(s), Tail(t))

(***************************************************************************)
(* Sequences of rows.                                                      *)
(***************************************************************************)
SeqMap(s, F(_)) == [i \in 1..Len(s) |-> F(s[i])]

Range(s) == {s[i] : i \in 1..Len(s)}

\* { ...row, ...updates }: the fields of updates override those of row.
Merge(row, updates) ==
    [f \in DOMAIN row |-> IF f \in DOMAIN updates THEN updates[f] ELSE row[f]]

\* select('*').order('name'): the rows of a table by name; rows of equal
\* name are given in the order of their ids.
RowBefore(r1, r2) ==
    \/ r1.name < r2.name
    \/ r1.name = r2.name /\ StrLess(r1.id, r2.id)

OrderByName(rows) ==
    CHOOSE s \in [1..Cardinality(rows) -> rows] :
        /\ \A i, j \in 1..Cardinality(rows) : i < j => RowBefore(s[i], s[j])

Ids(rows) == {r.id : r \in rows}

(***************************************************************************)
(* MachineContext.tsx: the identifier allocator.                           *)
(***************************************************************************)
RECURSIVE ReduceMax(_, _)
\* nums.reduce((max, n) => n > max ? n : max, init)
ReduceMax(nums, max) ==
    IF nums = <<>> THEN max
    ELSE ReduceMax(Tail(nums), IF NumGreater(Head(nums), max) THEN Head(nums) ELSE max)

\* parseInt(machine.id.substring(4)): the number after "C##M".
MachineNum(m) == parseInt(substring(m.id, 4))

generateMachineId(ms, machineTypeId) ==
    LET InType(m) == m.machine_type_id = machineTypeId
        machinesInType == SelectSeq(ms, InType)
        maxMachineNum == ReduceMax(SeqMap(machinesInType, MachineNum), 0)
    IN  machineTypeId \o <<"M">> \o padStart(String(maxMachineNum + 1), 2, "0")

\* parseInt(type.id.replace('C', ''))
TypeNum(t) == parseInt(replaceFirst(t.id, "C"))

generateMachineTypeId(ts) ==
    LET maxId == ReduceMax(SeqMap(ts, TypeNum), 0)
    IN  <<"C">> \o padStart(String(maxId + 1), 2, "0")

(***************************************************************************)
(* The outcome of a provider call: the error the store returned, which the *)
(* provider rethrows, or "none".                                          *)
(***************************************************************************)
Outcome(c, op, error) == [client |-> c, op |-> op, error |-> error]

C01 == <<"C", "0", "1">>
C09 == <<"C", "0", "9">>
C99 == <<"C", "9", "9">>

\* The tables a client may find when it starts: an empty store, a store
\* whose category C01 holds the machine numbered 99, and a store whose last
\* category is C99.
SeedStores ==
    { [types |-> {}, machines |-> {}],
      [types |-> {[id |-> C01, name |-> 1]},
       machines |-> {[id |-> C01 \o <<"M", "9", "9">>, machine_type_id |-> C01, name |-> 1]}],
      [types |-> {[id |-> C99, name |-> 1]}, machines |-> {}] }

EmptyStore == [types |-> {}, machines |-> {}]

InitMachine(seeds) ==
    /\ \E seed \in seeds :
          /\ tblMachineTypes = seed.types
          /\ tblMachines = seed.machines
    /\ machineTypes = [c \in Clients |-> <<>>]
    /\ machines = [c \in Clients |-> <<>>]
    /\ issuedMachineIds = Ids(tblMachines)
    /\ issuedTypeIds = Ids(tblMachineTypes)
    /\ lastCall = Outcome(0, "none", "none")

(***************************************************************************)
(* MachineContext.tsx: the provider's operations, for a client c.          *)
(***************************************************************************)
\* loadData: each select either fails, and then leaves that part of the
\* snapshot alone, or installs the whole table.
loadData(c) ==
    /\ \E typesError, machinesError \in BOOLEAN :
          /\ machineTypes' = IF typesError THEN machineTypes
                             ELSE [machineTypes EXCEPT ![c] = OrderByName(tblMachineTypes)]
          /\ machines' = IF machinesError THEN machines
                         ELSE [machines EXCEPT ![c] = OrderByName(tblMachines)]
    /\ lastCall' = Outcome(c, "loadData", "none")
    /\ UNCHANGED <<tblMachineTypes, tblMachines, issuedMachineIds, issuedTypeIds>>
    /\ UNCHANGED <<bookingVars, authVars, otherVars>>

\* addMachine, were it to add the machine to the list before the store
\* has answered.
addMachine_optimistic(c, machineData) ==
    LET newId == generateMachineId(machines[c], machineData.machine_type_id)
        newMachine == [id |-> newId,
                       machine_type_id |-> machineData.machine_type_id,
                       name |-> machineData.name]
    IN  /\ Cardinality(tblMachines) < MaxMachines
        /\ Len(machines[c]) < MaxMachines
        /\ Cardinality(issuedMachineIds \cup {newId}) <= MaxIssued
        /\ machines' = [machines EXCEPT ![c] = Append(@, newMachine)]
        /\ \/ /\ newId \notin Ids(tblMachines)
              /\ tblMachines' = tblMachines \cup {newMachine}
              /\ issuedMachineIds' = issuedMachineIds \cup {newId}
              /\ lastCall' = Outcome(c, "addMachine", "none")
           \/ /\ newId \in Ids(tblMachines)
              /\ lastCall' = Outcome(c, "addMachine", "duplicate_key")
              /\ UNCHANGED <<tblMachines, issuedMachineIds>>
           \/ /\ lastCall' = Outcome(c, "addMachine", "unavailable")
              /\ UNCHANGED <<tblMachines, issuedMachineIds>>
        /\ UNCHANGED <<tblMachineTypes, machineTypes, issuedTypeIds>>
        /\ UNCHANGED <<bookingVars, authVars, otherVars>>

addMachine(c, machineData) ==
    LET newId == generateMachineId(machines[c], machineData.machine_type_id)
        newMachine == [id |-> newId,
                       machine_type_id |-> machineData.machine_type_id,
                       name |-> machineData.name]
    IN  /\ Cardinality(tblMachines) < MaxMachines
        /\ Len(machines[c]) < MaxMachines
        /\ Cardinality(issuedMachineIds \cup {newId}) <= MaxIssued
        /\ \/ /\ newId \notin Ids(tblMachines)
              /\ tblMachines' = tblMachines \cup {newMachine}
              /\ machines' = [machines EXCEPT ![c] = Append(@, newMachine)]
              /\ issuedMachineIds' = issuedMachineIds \cup {newId}
              /\ lastCall' = Outcome(c, "addMachine", "none")
           \/ /\ newId \in Ids(tblMachines)
              /\ lastCall' = Outcome(c, "addMachine", "duplicate_key")
              /\ UNCHANGED <<tblMachines, machines, issuedMachineIds>>
           \/ /\ lastCall' = Outcome(c, "addMachine", "unavailable")
              /\ UNCHANGED <<tblMachines, machines, issuedMachineIds>>
        /\ UNCHANGED <<tblMachineTypes, machineTypes, issuedTypeIds>>
        /\ UNCHANGED <<bookingVars, authVars, otherVars>>

updateMachine(c, id, updates) ==
    LET Updated(m) == IF m.id = id THEN Merge(m, updates) ELSE m
    IN  /\ \/ /\ tblMachines' = {Updated(m) : m \in tblMachines}
              /\ machines' = [machines EXCEPT ![c] = SeqMap(@, Updated)]
              /\ lastCall' = Outcome(c, "updateMachine", "none")
           \/ /\ lastCall' = Outcome(c, "updateMachine", "unavailable")
              /\ UNCHANGED <<tblMachines, machines>>
        /\ UNCHANGED <<tblMachineTypes, machineTypes, issuedMachineIds, issuedTypeIds>>
        /\ UNCHANGED <<bookingVars, authVars, otherVars>>

deleteMachine(c, id) ==
    LET Kept(m) == m.id # id
    IN  /\ \/ /\ tblMachines' = {m \in tblMachines : Kept(m)}
              /\ machines' = [machines EXCEPT ![c] = SelectSeq(@, Kept)]
              /\ lastCall' = Outcome(c, "deleteMachine", "none")
           \/ /\ lastCall' = Outcome(c, "deleteMachine", "unavailable")
              /\ UNCHANGED <<tblMachines, machines>>
        /\ UNCHANGED <<tblMachineTypes, machineTypes, issuedMachineIds, issuedTypeIds>>
        /\ UNCHANGED <<bookingVars, authVars, otherVars>>

addMachineType(c, machineTypeData) ==
    LET newId == generateMachineTypeId(machineTypes[c])
        newMachineType == [id |-> newId, name |-> machineTypeData.name]
    IN  /\ Cardinality(tblMachineTypes) < MaxTypes
        /\ Len(machineTypes[c]) < MaxTypes
        /\ Cardinality(issuedTypeIds \cup {newId}) <= MaxIssued
        /\ \/ /\ newId \notin Ids(tblMachineTypes)
              /\ tblMachineTypes' = tblMachineTypes \cup {newMachineType}
              /\ machineTypes' = [machineTypes EXCEPT ![c] = Append(@, newMachineType)]
              /\ issuedTypeIds' = issuedTypeIds \cup {newId}
              /\ lastCall' = Outcome(c, "addMachineType", "none")
           \/ /\ newId \in Ids(tblMachineTypes)
              /\ lastCall' = Outcome(c, "addMachineType", "duplicate_key")
              /\ UNCHANGED <<tblMachineTypes, machineTypes, issuedTypeIds>>
           \/ /\ lastCall' = Outcome(c, "addMachineType", "unavailable")
              /\ UNCHANGED <<tblMachineTypes, machineTypes, issuedTypeIds>>
        /\ UNCHANGED <<tblMachines, machines, issuedMachineIds>>
        /\ UNCHANGED <<bookingVars, authVars, otherVars>>

\* update(updates).eq('id', id): when updates names an id that another row
\* holds, the store refuses the write.
updateMachineType(c, id, updates) ==
    LET Updated(t) == IF t.id = id THEN Merge(t, updates) ELSE t
        clash == /\ "id" \in DOMAIN updates
                 /\ id \in Ids(tblMachineTypes)
                 /\ updates.id \in Ids(tblMachineTypes) \ {id}
    IN  /\ \/ /\ ~clash
              /\ tblMachineTypes' = {Updated(t) : t \in tblMachineTypes}
              /\ machineTypes' = [machineTypes EXCEPT ![c] = SeqMap(@, Updated)]
              /\ lastCall' = Outcome(c, "updateMachineType", "none")
           \/ /\ clash
              /\ lastCall' = Outcome(c, "updateMachineType", "duplicate_key")
              /\ UNCHANGED <<tblMachineTypes, machineTypes>>
           \/ /\ lastCall' = Outcome(c, "updateMachineType", "unavailable")
              /\ UNCHANGED <<tblMachineTypes, machineTypes>>
        /\ UNCHANGED <<tblMachines, machines, issuedMachineIds, issuedTypeIds>>
        /\ UNCHANGED <<bookingVars, authVars, otherVars>>

deleteMachineType(c, id) ==
    LET Kept(t) == t.id # id
    IN  /\ \/ /\ tblMachineTypes' = {t \in tblMachineTypes : Kept(t)}
              /\ machineTypes' = [machineTypes EXCEPT ![c] = SelectSeq(@, Kept)]
              /\ lastCall' = Outcome(c, "deleteMachineType", "none")
           \/ /\ lastCall' = Outcome(c, "deleteMachineType", "unavailable")
              /\ UNCHANGED <<tblMachineTypes, machineTypes>>
        /\ UNCHANGED <<tblMachines, machines, issuedMachineIds, issuedTypeIds>>
        /\ UNCHANGED <<bookingVars, authVars, otherVars>>

\* The arguments the callers pass: the ids are those the client sees in its
\* snapshot.
SeenTypeIds(c) == Ids(Range(machineTypes[c]))
SeenMachineIds(c) == Ids(Range(machines[c]))

MachineUpdates(c) ==
    {[machine_type_id |-> t] : t \in SeenTypeIds(c)} \cup {[name |-> n] : n \in Names}

MachineTypeUpdates == {[name |-> n] : n \in Names} \cup {[id |-> C09]}

(***************************************************************************)
(* BookingContext.tsx: the provider's operations, for a client c.          *)
(***************************************************************************)
Statuses == {"pending", "approved", "rejected", "cancelled", "completed"}

InitBooking ==
    /\ tblBookings = {}
    /\ nextBookingId = 1
    /\ bookings = [c \in Clients |-> <<>>]

\* select('*').order('created_at', { ascending: false }): the newest row
\* first.  The store stamps created_at at the insert, so the rows are in
\* the descending order of the ids it gave them.
OrderByCreatedDesc(rows) ==
    CHOOSE s \in [1..Cardinality(rows) -> rows] :
        \A i, j \in 1..Cardinality(rows) : i < j => s[i].id > s[j].id

loadBookings(c) ==
    /\ \/ /\ bookings' = [bookings EXCEPT ![c] = OrderByCreatedDesc(tblBookings)]
          /\ lastCall' = Outcome(c, "loadBookings", "none")
       \/ /\ lastCall' = Outcome(c, "loadBookings", "none")
          /\ UNCHANGED bookings
    /\ UNCHANGED <<tblBookings, nextBookingId, machineVars, authVars, otherVars>>

\* insert(bookingData).select().single(): the store adds the row as it is
\* given, under an id of its own.
addBooking(c, bookingData) ==
    LET newBooking == [id |-> nextBookingId] @@ bookingData
    IN  /\ nextBookingId <= MaxBookings
        /\ \/ /\ tblBookings' = tblBookings \cup {newBooking}
              /\ nextBookingId' = nextBookingId + 1
              /\ bookings' = [bookings EXCEPT ![c] = <<newBooking>> \o @]
              /\ lastCall' = Outcome(c, "addBooking", "none")
           \/ /\ lastCall' = Outcome(c, "addBooking", "unavailable")
              /\ UNCHANGED <<tblBookings, nextBookingId, bookings>>
        /\ UNCHANGED <<machineVars, authVars, otherVars>>

updateBooking(c, id, updates) ==
    LET Updated(b) == IF b.id = id THEN Merge(b, updates) ELSE b
    IN  /\ \/ /\ tblBookings' = {Updated(b) : b \in tblBookings}
              /\ bookings' = [bookings EXCEPT ![c] = SeqMap(@, Updated)]
              /\ lastCall' = Outcome(c, "updateBooking", "none")
           \/ /\ lastCall' = Outcome(c, "updateBooking", "unavailable")
              /\ UNCHANGED <<tblBookings, bookings>>
        /\ UNCHANGED <<nextBookingId, machineVars, authVars, otherVars>>

deleteBooking(c, id) ==
    LET Kept(b) == b.id # id
    IN  /\ \/ /\ tblBookings' = {b \in tblBookings : Kept(b)}
              /\ bookings' = [bookings EXCEPT ![c] = SelectSeq(@, Kept)]
              /\ lastCall' = Outcome(c, "deleteBooking", "none")
           \/ /\ lastCall' = Outcome(c, "deleteBooking", "unavailable")
              /\ UNCHANGED <<tblBookings, bookings>>
        /\ UNCHANGED <<nextBookingId, machineVars, authVars, otherVars>>

(***************************************************************************)
(* AuthContext.tsx: the provider's operations, for a client c.             *)
(***************************************************************************)
Null == <<>>

TokenFields == {"tokens_given", "tokens_consumed", "tokens_remaining"}

\* The accounts the store holds when a client starts, each with its whole
\* grant unspent.
InitAuth(n) ==
    /\ authUsers = 1..n
    /\ tblProfiles = {[id |-> u, tokens_given |-> MaxTokens, tokens_consumed |-> 0,
                       tokens_remaining |-> MaxTokens] : u \in 1..n}
    /\ nextUserId = n + 1
    /\ user = [c \in Clients |-> Null]
    /\ supabaseUser = [c \in Clients |-> Null]
    /\ profileLoads = [c \in Clients |-> {}]

\* loadUserProfile: the profile row of userId, null when the select fails
\* or finds no row.
loadUserProfile(userId, failed) ==
    IF failed \/ userId \notin Ids(tblProfiles) THEN Null
    ELSE CHOOSE p \in tblProfiles : p.id = userId

\* login, with the auth listener's setSupabaseUser on the new session.
login(c, userId) ==
    /\ \/ /\ userId \in authUsers
          /\ \E failed \in BOOLEAN :
                user' = [user EXCEPT ![c] = loadUserProfile(userId, failed)]
          /\ supabaseUser' = [supabaseUser EXCEPT ![c] = [id |-> userId]]
          /\ lastCall' = Outcome(c, "login", "none")
       \/ /\ lastCall' = Outcome(c, "login", "invalid_credentials")
          /\ UNCHANGED <<user, supabaseUser>>
    /\ UNCHANGED <<tblProfiles, authUsers, nextUserId, profileLoads, machineVars, bookingVars,
                 otherVars>>

logout(c) ==
    /\ \/ /\ user' = [user EXCEPT ![c] = Null]
          /\ supabaseUser' = [supabaseUser EXCEPT ![c] = Null]
       \/ UNCHANGED <<user, supabaseUser>>
    /\ lastCall' = Outcome(c, "logout", "none")
    /\ UNCHANGED <<tblProfiles, authUsers, nextUserId, profileLoads, machineVars, bookingVars,
                 otherVars>>

\* addUser: the account is created first, the profile row after it.
addUser(c, userData) ==
    LET newProfile == [id |-> nextUserId] @@ userData
    IN  /\ nextUserId <= MaxUsers
        /\ \/ /\ authUsers' = authUsers \cup {nextUserId}
              /\ nextUserId' = nextUserId + 1
              /\ tblProfiles' = tblProfiles \cup {newProfile}
              /\ lastCall' = Outcome(c, "addUser", "none")
           \/ /\ authUsers' = authUsers \cup {nextUserId}
              /\ nextUserId' = nextUserId + 1
              /\ lastCall' = Outcome(c, "addUser", "unavailable")
              /\ UNCHANGED tblProfiles
           \/ /\ lastCall' = Outcome(c, "addUser", "unavailable")
              /\ UNCHANGED <<authUsers, nextUserId, tblProfiles>>
        /\ UNCHANGED <<user, supabaseUser, profileLoads, machineVars, bookingVars, otherVars>>

updateUser(c, id, updates) ==
    LET Updated(p) == IF p.id = id THEN Merge(p, updates) ELSE p
    IN  /\ \/ /\ tblProfiles' = {Updated(p) : p \in tblProfiles}
              /\ user' = [user EXCEPT ![c] =
                            IF @ # Null /\ @.id = id THEN Merge(@, updates) ELSE @]
              /\ lastCall' = Outcome(c, "updateUser", "none")
           \/ /\ lastCall' = Outcome(c, "updateUser", "unavailable")
              /\ UNCHANGED <<tblProfiles, user>>
        /\ UNCHANGED <<authUsers, nextUserId, supabaseUser, profileLoads, machineVars, bookingVars,
                     otherVars>>

\* deleteUser: deleting the account cascades to its profile row.
deleteUser(c, id) ==
    /\ \/ /\ authUsers' = authUsers \ {id}
          /\ tblProfiles' = {p \in tblProfiles : p.id # id}
          /\ lastCall' = Outcome(c, "deleteUser", "none")
       \/ /\ lastCall' = Outcome(c, "deleteUser", "unavailable")
          /\ UNCHANGED <<authUsers, tblProfiles>>
    /\ UNCHANGED <<nextUserId, user, supabaseUser, profileLoads, machineVars, bookingVars, otherVars>>

\* No audit entry yet, no query answered, nothing in flight.
InitOther ==
    /\ tblAuditLogs = {}
    /\ nextAuditId = 1
    /\ auditLogs = [c \in Clients |-> <<>>]
    /\ returned = <<>>
    /\ feed = [c \in Clients |-> <<>>]
    /\ bookingLoads = [c \in Clients |-> {}]
    /\ pendingCall = [c \in Clients |-> Null]
    /\ dataLoads = [c \in Clients |-> <<>>]
    /\ loadFailed = FALSE

\* A store that holds machines and categories, and no bookings yet.
InitCatalog == InitMachine(SeedStores) /\ InitBooking /\ InitAuth(NSeedUsers) /\ InitOther

\* A store that holds the users' profiles, and no bookings yet.
InitUsers == InitMachine({EmptyStore}) /\ InitBooking /\ InitAuth(NSeedUsers) /\ InitOther

\* Every operation of the provider, called by client c.
MachineOps(c) ==
    \/ loadData(c)
    \/ \E t \in SeenTypeIds(c), n \in Names :
          addMachine(c, [machine_type_id |-> t, name |-> n])
    \/ \E id \in SeenMachineIds(c), u \in MachineUpdates(c) : updateMachine(c, id, u)
    \/ \E id \in SeenMachineIds(c) : deleteMachine(c, id)
    \/ \E n \in Names : addMachineType(c, [name |-> n])
    \/ \E id \in SeenTypeIds(c), u \in MachineTypeUpdates : updateMachineType(c, id, u)
    \/ \E id \in SeenTypeIds(c) : deleteMachineType(c, id)

\* One administrator's session against the store.
NextMachine == \E c \in {1} : MachineOps(c)

SpecMachine == InitCatalog /\ [][NextMachine]_vars

\* The same session on a catalogue that starts empty.
SpecNewCatalog == InitUsers /\ [][NextMachine]_vars

\* Several clients that start on an empty catalogue and refresh and create,
\* each from its own snapshot.
NextRace ==
    \E c \in Clients :
        \/ loadData(c)
        \/ \E t \in SeenTypeIds(c), n \in Names :
              addMachine(c, [machine_type_id |-> t, name |-> n])
        \/ \E n \in Names : addMachineType(c, [name |-> n])

SpecRace == InitUsers /\ [][NextRace]_vars

(***************************************************************************)
(* The arguments the callers pass to the booking and user operations.      *)
(***************************************************************************)
UserIds == 1..MaxUsers
BookedMachineIds == {C01 \o <<"M", "0", "1">>, C01 \o <<"M", "0", "2">>}
Intervals == {iv \in (0..MaxTime) \X (0..MaxTime) : iv[1] < iv[2]}

BookingData ==
    {[user_id |-> u, machine_id |-> m, start_time |-> iv[1], end_time |-> iv[2],
      status |-> st, tokens |-> k] :
        u \in 1..NSeedUsers, m \in BookedMachineIds, iv \in Intervals,
        st \in {"pending", "approved"}, k \in 1..MaxCost}

BookingUpdates ==
    {[status |-> st] : st \in Statuses}
        \cup {[start_time |-> iv[1], end_time |-> iv[2]] : iv \in Intervals}

SeenBookingIds(c) == Ids(Range(bookings[c]))

\* Partial<User> over the token fields: any of them, with any value.
UserUpdates ==
    UNION {[fs -> 0..MaxTokens] : fs \in SUBSET TokenFields}

UserData == [TokenFields -> 0..MaxTokens]

NextBooking ==
    \E c \in {1} :
        \/ loadBookings(c)
        \/ \E d \in BookingData : addBooking(c, d)
        \/ \E id \in SeenBookingIds(c), u \in BookingUpdates : updateBooking(c, id, u)
        \/ \E id \in SeenBookingIds(c) : deleteBooking(c, id)

SpecBooking == InitUsers /\ [][NextBooking]_vars

NextLedger ==
    \E c \in {1} :
        \/ \E u \in UserIds : login(c, u)
        \/ logout(c)
        \/ \E d \in UserData : addUser(c, d)
        \/ \E id \in Ids(tblProfiles), u \in UserUpdates : updateUser(c, id, u)
        \/ \E id \in Ids(tblProfiles) : deleteUser(c, id)

SpecLedger == InitUsers /\ [][NextLedger]_vars

(***************************************************************************)
(* Bookings on machines that have a status.                                *)
(***************************************************************************)
MachineStatuses == {"available", "in-use", "maintenance", "retired"}

\* A store whose category C01 holds one machine that is available and one
\* that is in maintenance.
StatusStore ==
    [types |-> {[id |-> C01, name |-> 1]},
     machines |-> {[id |-> C01 \o <<"M", "0", "1">>, machine_type_id |-> C01, name |-> 1,
                    status |-> "available"],
                   [id |-> C01 \o <<"M", "0", "2">>, machine_type_id |-> C01, name |-> 1,
                    status |-> "maintenance"]}]

InitStatus == InitMachine({StatusStore}) /\ InitBooking /\ InitAuth(NSeedUsers) /\ InitOther

\* One booking request per machine, owner and initial status.
RequestData ==
    {d \in BookingData : d.start_time = 0 /\ d.end_time = 1 /\ d.tokens = 1}

NextAvail ==
    \E c \in {1} :
        \/ loadData(c)
        \/ \E id \in SeenMachineIds(c), st \in MachineStatuses :
              updateMachine(c, id, [status |-> st])
        \/ loadBookings(c)
        \/ \E d \in RequestData : addBooking(c, d)

SpecAvail == InitStatus /\ [][NextAvail]_vars

(***************************************************************************)
(* MachineContext.tsx: the audit trail.                                    *)
(***************************************************************************)
AuditLimit == 100

AuditActions == {"create", "update", "delete"}

\* select('*').order('timestamp', { ascending: false }).limit(100): the
\* newest entries first, the store stamping each entry at its insert.
OrderByTimestampDesc(rows) ==
    LET s == CHOOSE q \in [1..Cardinality(rows) -> rows] :
                 \A i, j \in 1..Cardinality(rows) : i < j => q[i].id > q[j].id
    IN  IF Len(s) <= AuditLimit THEN s ELSE SubSeq(s, 1, AuditLimit)

addAuditLog(c, logData) ==
    LET newLog == [id |-> nextAuditId] @@ logData
    IN  /\ nextAuditId <= MaxAudit
        /\ \/ /\ tblAuditLogs' = tblAuditLogs \cup {newLog}
              /\ nextAuditId' = nextAuditId + 1
              /\ lastCall' = Outcome(c, "addAuditLog", "none")
           \/ /\ lastCall' = Outcome(c, "addAuditLog", "unavailable")
              /\ UNCHANGED <<tblAuditLogs, nextAuditId>>
        /\ UNCHANGED <<auditLogs, returned, syncVars, machineVars, bookingVars, authVars>>

(***************************************************************************)
(* The queries, and the refresh a caller awaits.  failed tells whether the *)
(* store answered the select with an error.                                *)
(***************************************************************************)
\* The rows of a query in the order of OrderByCreatedDesc.
Newest(rows) == OrderByCreatedDesc(rows)

getBookingsByUser(c, userId, failed) ==
    /\ returned' = IF failed THEN <<>>
                   ELSE Newest({b \in tblBookings : b.user_id = userId})
    /\ lastCall' = Outcome(c, "getBookingsByUser", "none")
    /\ UNCHANGED <<auditVars, syncVars, machineVars, bookingVars, authVars>>

getBookingsByMachine(c, machineId, failed) ==
    /\ returned' = IF failed THEN <<>>
                   ELSE Newest({b \in tblBookings : b.machine_id = machineId})
    /\ lastCall' = Outcome(c, "getBookingsByMachine", "none")
    /\ UNCHANGED <<auditVars, syncVars, machineVars, bookingVars, authVars>>

\* order('created_at', { ascending: false }) over the profiles, which the
\* authentication service numbers as it creates them.
getAllUsers(c, failed) ==
    /\ returned' = IF failed THEN <<>> ELSE Newest(tblProfiles)
    /\ lastCall' = Outcome(c, "getAllUsers", "none")
    /\ UNCHANGED <<auditVars, syncVars, machineVars, bookingVars, authVars>>

\* refreshBookings: awaits loadBookings, which logs a failure and returns.
refreshBookings(c, failed) ==
    /\ bookings' = IF failed THEN bookings
                   ELSE [bookings EXCEPT ![c] = OrderByCreatedDesc(tblBookings)]
    /\ lastCall' = Outcome(c, "refreshBookings", "none")
    /\ UNCHANGED <<tblBookings, nextBookingId, machineVars, authVars, otherVars>>

\* Any booking id a caller may name, known to the store or not.
BookingIds == 1..MaxBookings

NextLifecycle ==
    \E c \in {1} :
        \/ \E d \in RequestData : addBooking(c, d)
        \/ \E id \in BookingIds, st \in Statuses : updateBooking(c, id, [status |-> st])
        \/ \E id \in BookingIds : deleteBooking(c, id)
        \/ \E a \in AuditActions : addAuditLog(c, [action |-> a])

SpecLifecycle == InitUsers /\ [][NextLifecycle]_vars

NextQuery ==
    \E c \in {1} :
        \/ \E d \in RequestData : addBooking(c, d)
        \/ \E id \in BookingIds : deleteBooking(c, id)
        \/ \E u \in 1..NSeedUsers, failed \in BOOLEAN : getBookingsByUser(c, u, failed)
        \/ \E m \in BookedMachineIds, failed \in BOOLEAN : getBookingsByMachine(c, m, failed)
        \/ \E failed \in BOOLEAN : getAllUsers(c, failed)
        \/ \E failed \in BOOLEAN : refreshBookings(c, failed)

SpecQuery == InitUsers /\ [][NextQuery]_vars

(***************************************************************************)
(* BookingContext.tsx with its awaits: a mutation is sent to the store     *)
(* and resolves later; the store notifies every client of a change; a      *)
(* notification starts a loadBookings, whose select the store answers with *)
(* the table as it is then, and whose answer is installed when it arrives. *)
(***************************************************************************)
\* The store's postgres_changes event, with the row as payload.
Notification(table, eventType, row) ==
    [table |-> table, eventType |-> eventType, new |-> row]

\* The clients whose provider is mounted, and so subscribed.
Subscribers == {1}

\* Every subscription is handed the event.
Notify(n) == [c \in Clients |-> IF c \in Subscribers THEN Append(feed[c], n) ELSE feed[c]]

FeedHasRoom == \A c \in Subscribers : Len(feed[c]) < MaxFeed

\* s without its i-th element.
RemoveAt(s, i) == SubSeq(s, 1, i - 1) \o SubSeq(s, i + 1, Len(s))

\* The answers the store may give to loadBookings' select now.
SelectBookings ==
    {[error |-> FALSE, data |-> OrderByCreatedDesc(tblBookings)],
     [error |-> TRUE, data |-> <<>>]}

addBookingSend(c, bookingData) ==
    LET newBooking == [id |-> nextBookingId] @@ bookingData
    IN  /\ pendingCall[c] = Null
        /\ nextBookingId <= MaxBookings
        /\ \/ /\ FeedHasRoom
              /\ tblBookings' = tblBookings \cup {newBooking}
              /\ nextBookingId' = nextBookingId + 1
              /\ feed' = Notify(Notification("bookings", "INSERT", newBooking))
              /\ pendingCall' = [pendingCall EXCEPT ![c] =
                     [op |-> "addBooking", error |-> "none", data |-> newBooking]]
           \/ /\ pendingCall' = [pendingCall EXCEPT ![c] =
                     [op |-> "addBooking", error |-> "unavailable", data |-> Null]]
              /\ UNCHANGED <<tblBookings, nextBookingId, feed>>
        /\ UNCHANGED <<bookings, bookingLoads, dataLoads, loadFailed, lastCall>>
        /\ UNCHANGED <<machineVars, authVars, auditVars, returned>>

addBookingResolve(c) ==
    /\ pendingCall[c] # Null
    /\ pendingCall[c].op = "addBooking"
    /\ bookings' = IF pendingCall[c].error = "none"
                   THEN [bookings EXCEPT ![c] = <<pendingCall[c].data>> \o @]
                   ELSE bookings
    /\ lastCall' = Outcome(c, "addBooking", pendingCall[c].error)
    /\ pendingCall' = [pendingCall EXCEPT ![c] = Null]
    /\ UNCHANGED <<tblBookings, nextBookingId, feed, bookingLoads, dataLoads, loadFailed>>
    /\ UNCHANGED <<machineVars, authVars, auditVars, returned>>

updateBookingSend(c, id, updates) ==
    LET Updated(b) == IF b.id = id THEN Merge(b, updates) ELSE b
    IN  /\ pendingCall[c] = Null
        /\ \/ /\ FeedHasRoom
              /\ tblBookings' = {Updated(b) : b \in tblBookings}
              /\ feed' = IF id \in Ids(tblBookings)
                         THEN Notify(Notification("bookings", "UPDATE",
                                  Updated(CHOOSE b \in tblBookings : b.id = id)))
                         ELSE feed
              /\ pendingCall' = [pendingCall EXCEPT ![c] =
                     [op |-> "updateBooking", error |-> "none",
                      data |-> [id |-> id, updates |-> updates]]]
           \/ /\ pendingCall' = [pendingCall EXCEPT ![c] =
                     [op |-> "updateBooking", error |-> "unavailable", data |-> Null]]
              /\ UNCHANGED <<tblBookings, feed>>
        /\ UNCHANGED <<nextBookingId, bookings, bookingLoads, dataLoads, loadFailed, lastCall>>
        /\ UNCHANGED <<machineVars, authVars, auditVars, returned>>

updateBookingResolve(c) ==
    LET Updated(b) == IF b.id = pendingCall[c].data.id
                      THEN Merge(b, pendingCall[c].data.updates) ELSE b
    IN  /\ pendingCall[c] # Null
        /\ pendingCall[c].op = "updateBooking"
        /\ bookings' = IF pendingCall[c].error = "none"
                       THEN [bookings EXCEPT ![c] = SeqMap(@, Updated)]
                       ELSE bookings
        /\ lastCall' = Outcome(c, "updateBooking", pendingCall[c].error)
        /\ pendingCall' = [pendingCall EXCEPT ![c] = Null]
        /\ UNCHANGED <<tblBookings, nextBookingId, feed, bookingLoads, dataLoads, loadFailed>>
        /\ UNCHANGED <<machineVars, authVars, auditVars, returned>>

deleteBookingSend(c, id) ==
    /\ pendingCall[c] = Null
    /\ \/ /\ FeedHasRoom
          /\ tblBookings' = {b \in tblBookings : b.id # id}
          /\ feed' = IF id \in Ids(tblBookings)
                     THEN Notify(Notification("bookings", "DELETE", [id |-> id]))
                     ELSE feed
          /\ pendingCall' = [pendingCall EXCEPT ![c] =
                 [op |-> "deleteBooking", error |-> "none", data |-> [id |-> id]]]
       \/ /\ pendingCall' = [pendingCall EXCEPT ![c] =
                 [op |-> "deleteBooking", error |-> "unavailable", data |-> Null]]
          /\ UNCHANGED <<tblBookings, feed>>
    /\ UNCHANGED <<nextBookingId, bookings, bookingLoads, dataLoads, loadFailed, lastCall>>
    /\ UNCHANGED <<machineVars, authVars, auditVars, returned>>

deleteBookingResolve(c) ==
    LET Kept(b) == b.id # pendingCall[c].data.id
    IN  /\ pendingCall[c] # Null
        /\ pendingCall[c].op = "deleteBooking"
        /\ bookings' = IF pendingCall[c].error = "none"
                       THEN [bookings EXCEPT ![c] = SelectSeq(@, Kept)]
                       ELSE bookings
        /\ lastCall' = Outcome(c, "deleteBooking", pendingCall[c].error)
        /\ pendingCall' = [pendingCall EXCEPT ![c] = Null]
        /\ UNCHANGED <<tblBookings, nextBookingId, feed, bookingLoads, dataLoads, loadFailed>>
        /\ UNCHANGED <<machineVars, authVars, auditVars, returned>>

\* loadBookings up to its await: the select is answered from the table as
\* it is now, and the answer is on its way to the client.
loadBookingsSelect(c) ==
    /\ Cardinality(bookingLoads[c]) < MaxLoads
    /\ \E r \in SelectBookings :
          bookingLoads' = [bookingLoads EXCEPT ![c] = @ \cup {r}]
    /\ UNCHANGED <<feed, pendingCall, dataLoads, loadFailed, lastCall>>
    /\ UNCHANGED <<machineVars, bookingVars, authVars, auditVars, returned>>

\* loadBookings after its await: an answer arrives, in any order, and
\* setBookings installs its rows; an error is logged.
loadBookingsResolve(c, r) ==
    /\ r \in bookingLoads[c]
    /\ bookingLoads' = [bookingLoads EXCEPT ![c] = @ \ {r}]
    /\ bookings' = IF r.error THEN bookings ELSE [bookings EXCEPT ![c] = r.data]
    /\ loadFailed' = (loadFailed \/ r.error)
    /\ lastCall' = Outcome(c, "loadBookings", "none")
    /\ UNCHANGED <<tblBookings, nextBookingId, feed, pendingCall, dataLoads>>
    /\ UNCHANGED <<machineVars, authVars, auditVars, returned>>

\* The callback, were it to merge the payload instead of refreshing.
onBookingsChange_merge(c, i) ==
    /\ i \in 1..Len(feed[c])
    /\ feed[c][i].table = "bookings"
    /\ feed' = [feed EXCEPT ![c] = RemoveAt(@, i)]
    /\ bookings' = [bookings EXCEPT ![c] = <<feed[c][i].new>> \o @]
    /\ UNCHANGED <<bookingLoads, pendingCall, dataLoads, loadFailed, lastCall>>
    /\ UNCHANGED <<tblBookings, nextBookingId>>
    /\ UNCHANGED <<machineVars, authVars, auditVars, returned>>

\* The subscription's callback on the i-th waiting notification: it logs
\* the payload and calls loadBookings.
onBookingsChange(c, i) ==
    /\ i \in 1..Len(feed[c])
    /\ feed[c][i].table = "bookings"
    /\ feed' = [feed EXCEPT ![c] = RemoveAt(@, i)]
    /\ Cardinality(bookingLoads[c]) < MaxLoads
    /\ \E r \in SelectBookings :
          bookingLoads' = [bookingLoads EXCEPT ![c] = @ \cup {r}]
    /\ UNCHANGED <<pendingCall, dataLoads, loadFailed, lastCall>>
    /\ UNCHANGED <<machineVars, bookingVars, authVars, auditVars, returned>>

\* At-least-once delivery: the feed hands a waiting notification over twice.
feedDuplicate(c, i) ==
    /\ i \in 1..Len(feed[c])
    /\ Len(feed[c]) < MaxFeed
    /\ feed' = [feed EXCEPT ![c] = Append(@, feed[c][i])]
    /\ UNCHANGED <<bookingLoads, pendingCall, dataLoads, loadFailed, lastCall>>
    /\ UNCHANGED <<machineVars, bookingVars, authVars, auditVars, returned>>

SyncData ==
    {d \in RequestData : d.user_id = 1 /\ d.status = "pending"
                             /\ d.machine_id = C01 \o <<"M", "0", "1">>}

NextSync ==
    \E c \in Subscribers :
        \/ \E d \in SyncData : addBookingSend(c, d)
        \/ addBookingResolve(c)
        \/ \E id \in SeenBookingIds(c) : updateBookingSend(c, id, [status |-> "approved"])
        \/ updateBookingResolve(c)
        \/ \E id \in SeenBookingIds(c) : deleteBookingSend(c, id)
        \/ deleteBookingResolve(c)
        \/ loadBookingsSelect(c)
        \/ \E r \in bookingLoads[c] : loadBookingsResolve(c, r)
        \/ \E i \in 1..MaxFeed : onBookingsChange(c, i)
        \/ \E i \in 1..MaxFeed : feedDuplicate(c, i)

SpecSync == InitUsers /\ [][NextSync]_vars

(***************************************************************************)
(* MachineContext.tsx with its awaits: loadData awaits three selects in    *)
(* turn and installs each answer as it arrives; addMachineType and          *)
(* addMachine are sent to the store and resolve later.                      *)
(***************************************************************************)
CatalogTables == {"machines", "machine_types", "audit_logs"}

\* A loadData call that has just begun: setIsLoading(true), nothing read.
NewLoad == [stage |-> "types", ok |-> TRUE, types |-> <<>>, machines |-> <<>>]

\* refreshData, or the first load of a mounted provider.
loadDataStart(c) ==
    /\ Len(dataLoads[c]) < MaxLoads
    /\ dataLoads' = [dataLoads EXCEPT ![c] = Append(@, NewLoad)]
    /\ UNCHANGED <<feed, bookingLoads, pendingCall, loadFailed, lastCall>>
    /\ UNCHANGED <<machineVars, bookingVars, authVars, auditVars, returned>>

\* The callback of the three subscriptions on the i-th waiting
\* notification: it calls loadData.
onCatalogChange(c, i) ==
    /\ i \in 1..Len(feed[c])
    /\ feed[c][i].table \in CatalogTables
    /\ feed' = [feed EXCEPT ![c] = RemoveAt(@, i)]
    /\ Len(dataLoads[c]) < MaxLoads
    /\ dataLoads' = [dataLoads EXCEPT ![c] = Append(@, NewLoad)]
    /\ UNCHANGED <<bookingLoads, pendingCall, loadFailed, lastCall>>
    /\ UNCHANGED <<machineVars, bookingVars, authVars, auditVars, returned>>

\* The first await of the k-th loadData call of c: machine_types.
loadDataTypes(c, k) ==
    /\ k \in 1..Len(dataLoads[c])
    /\ dataLoads[c][k].stage = "types"
    /\ \E typesError \in BOOLEAN :
          /\ machineTypes' = IF typesError THEN machineTypes
                             ELSE [machineTypes EXCEPT ![c] = OrderByName(tblMachineTypes)]
          /\ dataLoads' = [dataLoads EXCEPT ![c][k] =
                 [@ EXCEPT !.stage = "machines",
                           !.ok = @ /\ ~typesError,
                           !.types = IF typesError THEN <<>>
                                     ELSE OrderByName(tblMachineTypes)]]
          /\ loadFailed' = (loadFailed \/ typesError)
    /\ UNCHANGED <<tblMachineTypes, tblMachines, machines, issuedMachineIds, issuedTypeIds>>
    /\ UNCHANGED <<feed, bookingLoads, pendingCall, lastCall>>
    /\ UNCHANGED <<bookingVars, authVars, auditVars, returned>>

\* The second await: machines.
loadDataMachines(c, k) ==
    /\ k \in 1..Len(dataLoads[c])
    /\ dataLoads[c][k].stage = "machines"
    /\ \E machinesError \in BOOLEAN :
          /\ machines' = IF machinesError THEN machines
                         ELSE [machines EXCEPT ![c] = OrderByName(tblMachines)]
          /\ dataLoads' = [dataLoads EXCEPT ![c][k] =
                 [@ EXCEPT !.stage = "audit",
                           !.ok = @ /\ ~machinesError,
                           !.machines = IF machinesError THEN <<>>
                                        ELSE OrderByName(tblMachines)]]
          /\ loadFailed' = (loadFailed \/ machinesError)
    /\ UNCHANGED <<tblMachineTypes, tblMachines, machineTypes, issuedMachineIds, issuedTypeIds>>
    /\ UNCHANGED <<feed, bookingLoads, pendingCall, lastCall>>
    /\ UNCHANGED <<bookingVars, authVars, auditVars, returned>>

\* The third await: audit_logs; then setIsLoading(false).
loadDataAudit(c, k) ==
    /\ k \in 1..Len(dataLoads[c])
    /\ dataLoads[c][k].stage = "audit"
    /\ \E auditError \in BOOLEAN :
          /\ auditLogs' = IF auditError THEN auditLogs
                          ELSE [auditLogs EXCEPT ![c] = OrderByTimestampDesc(tblAuditLogs)]
          /\ dataLoads' = [dataLoads EXCEPT ![c][k] =
                 [@ EXCEPT !.stage = "done", !.ok = @ /\ ~auditError]]
          /\ loadFailed' = (loadFailed \/ auditError)
    /\ lastCall' = Outcome(c, "loadData", "none")
    /\ UNCHANGED <<tblAuditLogs, nextAuditId, feed, bookingLoads, pendingCall>>
    /\ UNCHANGED <<machineVars, bookingVars, authVars, returned>>

addMachineTypeSend(c, machineTypeData) ==
    LET newId == generateMachineTypeId(machineTypes[c])
        newMachineType == [id |-> newId, name |-> machineTypeData.name]
    IN  /\ pendingCall[c] = Null
        /\ Cardinality(tblMachineTypes) < MaxTypes
        /\ Len(machineTypes[c]) < MaxTypes
        /\ Cardinality(issuedTypeIds \cup {newId}) <= MaxIssued
        /\ \/ /\ newId \notin Ids(tblMachineTypes)
              /\ FeedHasRoom
              /\ tblMachineTypes' = tblMachineTypes \cup {newMachineType}
              /\ issuedTypeIds' = issuedTypeIds \cup {newId}
              /\ feed' = Notify(Notification("machine_types", "INSERT", newMachineType))
              /\ pendingCall' = [pendingCall EXCEPT ![c] =
                     [op |-> "addMachineType", error |-> "none", data |-> newMachineType]]
           \/ /\ newId \in Ids(tblMachineTypes)
              /\ pendingCall' = [pendingCall EXCEPT ![c] =
                     [op |-> "addMachineType", error |-> "duplicate_key", data |-> Null]]
              /\ UNCHANGED <<tblMachineTypes, issuedTypeIds, feed>>
           \/ /\ pendingCall' = [pendingCall EXCEPT ![c] =
                     [op |-> "addMachineType", error |-> "unavailable", data |-> Null]]
              /\ UNCHANGED <<tblMachineTypes, issuedTypeIds, feed>>
        /\ UNCHANGED <<tblMachines, machineTypes, machines, issuedMachineIds>>
        /\ UNCHANGED <<bookingLoads, dataLoads, loadFailed, lastCall>>
        /\ UNCHANGED <<bookingVars, authVars, auditVars, returned>>

addMachineTypeResolve(c) ==
    /\ pendingCall[c] # Null
    /\ pendingCall[c].op = "addMachineType"
    /\ machineTypes' = IF pendingCall[c].error = "none"
                       THEN [machineTypes EXCEPT ![c] = Append(@, pendingCall[c].data)]
                       ELSE machineTypes
    /\ lastCall' = Outcome(c, "addMachineType", pendingCall[c].error)
    /\ pendingCall' = [pendingCall EXCEPT ![c] = Null]
    /\ UNCHANGED <<tblMachineTypes, tblMachines, machines, issuedMachineIds, issuedTypeIds>>
    /\ UNCHANGED <<feed, bookingLoads, dataLoads, loadFailed>>
    /\ UNCHANGED <<bookingVars, authVars, auditVars, returned>>

addMachineSend(c, machineData) ==
    LET newId == generateMachineId(machines[c], machineData.machine_type_id)
        newMachine == [id |-> newId,
                       machine_type_id |-> machineData.machine_type_id,
                       name |-> machineData.name]
    IN  /\ pendingCall[c] = Null
        /\ Cardinality(tblMachines) < MaxMachines
        /\ Len(machines[c]) < MaxMachines
        /\ Cardinality(issuedMachineIds \cup {newId}) <= MaxIssued
        /\ \/ /\ newId \notin Ids(tblMachines)
              /\ FeedHasRoom
              /\ tblMachines' = tblMachines \cup {newMachine}
              /\ issuedMachineIds' = issuedMachineIds \cup {newId}
              /\ feed' = Notify(Notification("machines", "INSERT", newMachine))
              /\ pendingCall' = [pendingCall EXCEPT ![c] =
                     [op |-> "addMachine", error |-> "none", data |-> newMachine]]
           \/ /\ newId \in Ids(tblMachines)
              /\ pendingCall' = [pendingCall EXCEPT ![c] =
                     [op |-> "addMachine", error |-> "duplicate_key", data |-> Null]]
              /\ UNCHANGED <<tblMachines, issuedMachineIds, feed>>
           \/ /\ pendingCall' = [pendingCall EXCEPT ![c] =
                     [op |-> "addMachine", error |-> "unavailable", data |-> Null]]
              /\ UNCHANGED <<tblMachines, issuedMachineIds, feed>>
        /\ UNCHANGED <<tblMachineTypes, machineTypes, machines, issuedTypeIds>>
        /\ UNCHANGED <<bookingLoads, dataLoads, loadFailed, lastCall>>
        /\ UNCHANGED <<bookingVars, authVars, auditVars, returned>>

addMachineResolve(c) ==
    /\ pendingCall[c] # Null
    /\ pendingCall[c].op = "addMachine"
    /\ machines' = IF pendingCall[c].error = "none"
                   THEN [machines EXCEPT ![c] = Append(@, pendingCall[c].data)]
                   ELSE machines
    /\ lastCall' = Outcome(c, "addMachine", pendingCall[c].error)
    /\ pendingCall' = [pendingCall EXCEPT ![c] = Null]
    /\ UNCHANGED <<tblMachineTypes, tblMachines, machineTypes, issuedMachineIds, issuedTypeIds>>
    /\ UNCHANGED <<feed, bookingLoads, dataLoads, loadFailed>>
    /\ UNCHANGED <<bookingVars, authVars, auditVars, returned>>

\* The mounted client refreshes, by itself and on notifications, while an
\* administrator on another client creates categories and machines.
NextCatalog ==
    \/ \E c \in Subscribers :
          \/ loadDataStart(c)
          \/ \E i \in 1..MaxFeed : onCatalogChange(c, i)
          \/ \E k \in 1..MaxLoads : loadDataTypes(c, k)
          \/ \E k \in 1..MaxLoads : loadDataMachines(c, k)
          \/ \E k \in 1..MaxLoads : loadDataAudit(c, k)
    \/ \E c \in Clients \ Subscribers :
          \/ \E n \in Names : addMachineTypeSend(c, [name |-> n])
          \/ addMachineTypeResolve(c)
          \/ \E t \in SeenTypeIds(c), n \in Names :
                addMachineSend(c, [machine_type_id |-> t, name |-> n])
          \/ addMachineResolve(c)

SpecCatalog == InitUsers /\ [][NextCatalog]_vars

\* The subscriptions at work: every refresh here is started by a
\* notification of a booking or of a category that was created.
NextFeed ==
    \/ \E c \in Subscribers :
          \/ \E d \in SyncData : addBookingSend(c, d)
          \/ addBookingResolve(c)
          \/ \E i \in 1..MaxFeed : onBookingsChange(c, i)
          \/ \E r \in bookingLoads[c] : loadBookingsResolve(c, r)
          \/ \E i \in 1..MaxFeed : onCatalogChange(c, i)
          \/ \E k \in 1..MaxLoads : loadDataTypes(c, k)
          \/ \E k \in 1..MaxLoads : loadDataMachines(c, k)
          \/ \E k \in 1..MaxLoads : loadDataAudit(c, k)
    \/ \E c \in Clients \ Subscribers :
          \/ \E n \in Names : addMachineTypeSend(c, [name |-> n])
          \/ addMachineTypeResolve(c)

SpecFeed == InitUsers /\ [][NextFeed]_vars

(***************************************************************************)
(* One client's mutations of bookings, machines and categories, each of    *)
(* which the store may refuse.                                              *)
(***************************************************************************)
MutationOps ==
    {"addBooking", "updateBooking", "deleteBooking",
     "addMachine", "updateMachine", "deleteMachine",
     "addMachineType", "updateMachineType", "deleteMachineType"}

NextMutation ==
    \E c \in {1} :
        \/ \E n \in Names : addMachineType(c, [name |-> n])
        \/ \E id \in SeenTypeIds(c), n \in Names : updateMachineType(c, id, [name |-> n])
        \/ \E id \in SeenTypeIds(c) : deleteMachineType(c, id)
        \/ \E t \in SeenTypeIds(c), n \in Names :
              addMachine(c, [machine_type_id |-> t, name |-> n])
        \/ \E id \in SeenMachineIds(c), t \in SeenTypeIds(c) :
              updateMachine(c, id, [machine_type_id |-> t])
        \/ \E id \in SeenMachineIds(c) : deleteMachine(c, id)
        \/ \E d \in SyncData : addBooking(c, d)
        \/ \E id \in SeenBookingIds(c), st \in {"approved", "cancelled"} :
              updateBooking(c, id, [status |-> st])
        \/ \E id \in SeenBookingIds(c) : deleteBooking(c, id)

SpecMutation == InitUsers /\ [][NextMutation]_vars

(***************************************************************************)
(* The session: profile loads that are still in flight when the session    *)
(* changes.                                                                *)
(***************************************************************************)
\* Who awaits a loadUserProfile: login or syncData.
LoadOrigins == {"login", "syncData"}

\* A loadUserProfile whose select the store has answered and whose caller
\* has not yet run setUser.
ProfileLoad(origin, profile) == [from |-> origin, profile |-> profile]

LoginInFlight(c) == \E l \in profileLoads[c] : l.from = "login"

\* The auth-state-change callback on a new session: setSupabaseUser, then
\* setUser with the profile its own loadUserProfile returns. The callback is
\* taken to have finished when signInWithPassword answers.
onAuthStateChange(c, userId, failed) ==
    /\ supabaseUser' = [supabaseUser EXCEPT ![c] = [id |-> userId]]
    /\ user' = [user EXCEPT ![c] = loadUserProfile(userId, failed)]

\* login up to its second await: signInWithPassword has answered. With valid
\* credentials the auth-state-change callback runs and login starts
\* loadUserProfile; with invalid ones login returns false.
loginSignIn(c, userId) ==
    /\ ~LoginInFlight(c)
    /\ \/ /\ userId \in authUsers
          /\ \E failed \in BOOLEAN : onAuthStateChange(c, userId, failed)
          /\ \E failed \in BOOLEAN :
                profileLoads' = [profileLoads EXCEPT ![c] = @ \cup
                    {ProfileLoad("login", loadUserProfile(userId, failed))}]
          /\ UNCHANGED lastCall
       \/ /\ lastCall' = Outcome(c, "login", "invalid_credentials")
          /\ UNCHANGED <<user, supabaseUser, profileLoads>>
    /\ UNCHANGED <<tblProfiles, authUsers, nextUserId>>
    /\ UNCHANGED <<machineVars, bookingVars, otherVars>>

\* The continuation of an awaited loadUserProfile: setUser(profile).
resolveProfileLoad(c, l) ==
    /\ l \in profileLoads[c]
    /\ user' = [user EXCEPT ![c] = l.profile]
    /\ profileLoads' = [profileLoads EXCEPT ![c] = @ \ {l}]
    /\ UNCHANGED <<tblProfiles, authUsers, nextUserId, supabaseUser>>
    /\ UNCHANGED <<machineVars, bookingVars, otherVars>>

\* login after its loadUserProfile: setUser(profile); return true.
loginResolve(c) ==
    \E l \in profileLoads[c] :
        /\ l.from = "login"
        /\ resolveProfileLoad(c, l)
        /\ lastCall' = Outcome(c, "login", "none")

\* syncData up to its await: with a session it starts loadUserProfile,
\* without one it does nothing.
syncDataSend(c) ==
    /\ \/ /\ supabaseUser[c] # Null
          /\ \E failed \in BOOLEAN :
                profileLoads' = [profileLoads EXCEPT ![c] = @ \cup
                    {ProfileLoad("syncData", loadUserProfile(supabaseUser[c].id, failed))}]
          /\ UNCHANGED lastCall
       \/ /\ supabaseUser[c] = Null
          /\ lastCall' = Outcome(c, "syncData", "none")
          /\ UNCHANGED profileLoads
    /\ UNCHANGED <<tblProfiles, authUsers, nextUserId, user, supabaseUser>>
    /\ UNCHANGED <<machineVars, bookingVars, otherVars>>

\* syncData after its loadUserProfile: setUser(profile).
syncDataResolve(c) ==
    \E l \in profileLoads[c] :
        /\ l.from = "syncData"
        /\ resolveProfileLoad(c, l)
        /\ lastCall' = Outcome(c, "syncData", "none")

\* One client's session. The sign-in form and the sign-out button are not
\* used at the same moment: logout is called when no login is in flight.
NextSession ==
    \E c \in {1} :
        \/ \E u \in UserIds : loginSignIn(c, u)
        \/ loginResolve(c)
        \/ syncDataSend(c)
        \/ syncDataResolve(c)
        \/ ~LoginInFlight(c) /\ logout(c)

SpecSession == InitUsers /\ [][NextSession]_vars

(***************************************************************************)
(* Properties of the booking store.                                        *)
(***************************************************************************)
Active(b) == b.status \in {"pending", "approved"}

Overlap(b1, b2) == b1.start_time < b2.end_time /\ b2.start_time < b1.end_time

\* C1: on every machine the intervals of the pending and approved bookings
\* are pairwise non-overlapping (half-open: touching ends are allowed).
C1_NoOverlap ==
    \A b1, b2 \in tblBookings :
        (b1.id # b2.id /\ b1.machine_id = b2.machine_id /\ Active(b1) /\ Active(b2))
            => ~Overlap(b1, b2)

\* C2: every profile satisfies tokens_given - tokens_consumed =
\* tokens_remaining, in the store and in each client's current user.
C2_LedgerBalanced ==
    /\ \A p \in tblProfiles : p.tokens_given - p.tokens_consumed = p.tokens_remaining
    /\ \A c \in Clients :
          user[c] # Null =>
              user[c].tokens_given - user[c].tokens_consumed = user[c].tokens_remaining

LegalTransitions ==
    { <<"pending", "approved">>, <<"pending", "rejected">>, <<"pending", "cancelled">>,
      <<"approved", "cancelled">>, <<"approved", "completed">> }

\* C3: the status of a booking changes only along pending -> approved,
\* pending -> rejected, pending -> cancelled, approved -> cancelled and
\* approved -> completed; any other requested change leaves it as it was.
C3_LegalTransitionsOnly ==
    [][\A b \in tblBookings : \A b2 \in tblBookings' :
           (b2.id = b.id /\ b2.status # b.status)
               => <<b.status, b2.status>> \in LegalTransitions]_vars

Profile(u) == CHOOSE p \in tblProfiles : p.id = u

\* C4: a booking row enters the store only together with the reservation
\* of its cost: the step that inserts it adds its cost to the owner's
\* consumed tokens.
C4_CreateReserves ==
    [][\A b \in tblBookings' :
           b.id \notin Ids(tblBookings)
               => /\ b.user_id \in Ids(tblProfiles)
                  /\ Profile(b.user_id)'.tokens_consumed
                         = Profile(b.user_id).tokens_consumed + b.tokens]_vars

Refunding(from, to) ==
    \/ from = "pending" /\ to \in {"rejected", "cancelled"}
    \/ from = "approved" /\ to = "cancelled"

\* C5: the step that rejects a pending booking, or cancels a pending or
\* approved one, lowers the owner's consumed tokens by the cost recorded on
\* the booking, raises the remaining tokens by as much, and changes no
\* other profile.
C5_RefundExact ==
    [][\A b \in tblBookings : \A b2 \in tblBookings' :
           (b2.id = b.id /\ Refunding(b.status, b2.status))
               => /\ Profile(b.user_id)'.tokens_consumed
                         = Profile(b.user_id).tokens_consumed - b.tokens
                  /\ Profile(b.user_id)'.tokens_remaining
                         = Profile(b.user_id).tokens_remaining + b.tokens
                  /\ \A p \in tblProfiles : p.id # b.user_id => p \in tblProfiles']_vars

(***************************************************************************)
(* Properties of the identifier allocator and of the catalogue.            *)
(***************************************************************************)
\* C6: no create call is refused for an identifier another client took:
\* every concurrent addMachine and addMachineType creates its row under an
\* identifier of its own.
C6_ConcurrentCreatesSucceed ==
    lastCall.op \in {"addMachine", "addMachineType"} => lastCall.error # "duplicate_key"

HasPrefix(s, pre) == Len(s) >= Len(pre) /\ SubSeq(s, 1, Len(pre)) = pre

IsNumeral(s) == s # <<>> /\ \A i \in 1..Len(s) : IsDigit(s[i])

\* The largest number that follows the prefix pre in the ids, 0 when no id
\* is pre followed by a numeral.
MaxSuffix(ids, pre) ==
    LET nums == {parseInt(SubSeq(id, Len(pre) + 1, Len(id))) :
                    id \in {x \in ids : /\ HasPrefix(x, pre)
                                        /\ IsNumeral(SubSeq(x, Len(pre) + 1, Len(x)))}}
    IN  IF nums = {} THEN 0 ELSE CHOOSE n \in nums : \A k \in nums : k <= n

NextIdAfter(ids, pre) == pre \o padStart(String(MaxSuffix(ids, pre) + 1), 2, "0")

\* C7: generateMachineId returns the category code, "M" and the two digits
\* of max + 1, zero-padded, max being the largest number among the machine
\* ids that begin with the category code and "M"; generateMachineTypeId does
\* the same with "C" over the category ids.
C7_MaxPlusOneOverPrefix ==
    \A c \in Clients :
        /\ \A t \in SeenTypeIds(c) :
              /\ generateMachineId(machines[c], t)
                    = NextIdAfter(SeenMachineIds(c), t \o <<"M">>)
              /\ Len(generateMachineId(machines[c], t)) = Len(t) + 3
        /\ generateMachineTypeId(machineTypes[c]) = NextIdAfter(SeenTypeIds(c), <<"C">>)
        /\ Len(generateMachineTypeId(machineTypes[c])) = 3

\* C8: a machine is only ever created under an identifier whose number has
\* exactly two digits.
C8_TwoDigitSuffix ==
    [][\A m \in tblMachines' :
           m.id \notin Ids(tblMachines) => Len(m.id) = Len(m.machine_type_id) + 3]_vars

\* C9: an identifier that a machine (a category) was once created under is
\* never given to a machine (a category) created later.
C9_NoReuse ==
    [][/\ \A m \in tblMachines' :
             m.id \notin Ids(tblMachines) => m.id \notin issuedMachineIds
       /\ lastCall'.op = "addMachineType" =>
             \A t \in tblMachineTypes' :
                 t.id \notin Ids(tblMachineTypes) => t.id \notin issuedTypeIds]_vars

\* C10: deleteMachineType on a category that a machine still references is
\* refused and leaves the category in the store.
C10_DeleteRefusedWhileReferenced ==
    [][lastCall'.op = "deleteMachineType" =>
          \A t \in tblMachineTypes :
              (\E m \in tblMachines : m.machine_type_id = t.id) => t \in tblMachineTypes']_vars

(***************************************************************************)
(* Properties of the lifecycle operations.                                 *)
(***************************************************************************)
\* C11: a booking enters the store only on a machine whose status is
\* available: the step that inserts a booking finds its machine in the
\* store with that status.
C11_OnlyAvailableBooked ==
    [][\A b \in tblBookings' :
           b.id \notin Ids(tblBookings)
               => \E m \in tblMachines : m.id = b.machine_id /\ m.status = "available"]_vars

\* The step changes a booking, a machine or a category of the store.
StateChanged ==
    \/ tblBookings' # tblBookings
    \/ tblMachines' # tblMachines
    \/ tblMachineTypes' # tblMachineTypes

\* C12: a step that changes a booking, a machine or a category appends
\* exactly one audit entry; a call that fails appends none; and no step
\* changes or removes an entry the audit trail already holds.
C12_OneAuditEntryPerChange ==
    [][/\ StateChanged => Cardinality(tblAuditLogs' \ tblAuditLogs) = 1
       /\ lastCall'.error # "none" => tblAuditLogs' = tblAuditLogs
       /\ tblAuditLogs \subseteq tblAuditLogs']_vars

\* C13: updateBooking and deleteBooking on an id the store does not hold
\* are answered with an error (not_found, or the store's own failure) and
\* change neither the store nor the snapshot.
C13_UnknownIdIsNotFound ==
    [][\A c \in Clients, id \in BookingIds :
           (/\ id \notin Ids(tblBookings)
            /\ \/ \E u \in BookingUpdates : updateBooking(c, id, u)
               \/ deleteBooking(c, id))
               => /\ lastCall'.error \in {"not_found", "unavailable"}
                  /\ UNCHANGED <<tblBookings, bookings>>]_vars

\* C14: a query or refresh whose select the store answers with an error
\* ends with an error for its caller, never with a successful result.
C14_FailedQuerySurfaces ==
    [][\A c \in Clients :
           (\/ \E u \in 1..NSeedUsers : getBookingsByUser(c, u, TRUE)
            \/ \E m \in BookedMachineIds : getBookingsByMachine(c, m, TRUE)
            \/ getAllUsers(c, TRUE)
            \/ refreshBookings(c, TRUE))
               => lastCall'.error # "none"]_vars

(***************************************************************************)
(* Properties of the synchronizer.                                         *)
(***************************************************************************)
\* What client c shows: its snapshot of bookings, categories, machines and
\* audit entries.
Snapshot(c) == <<bookings[c], machineTypes[c], machines[c], auditLogs[c]>>

\* C15: the step that takes a notification off the feed leaves the snapshot
\* as it was and starts a refresh; every answer a refresh awaits is the
\* whole table or an error; and a refresh changes a part of the snapshot
\* only by installing such an answer, whole.
C15_FeedOnlyStartsRefresh ==
    [][\A c \in Clients :
           /\ Len(feed'[c]) < Len(feed[c]) =>
                 /\ Snapshot(c)' = Snapshot(c)
                 /\ \/ \E r \in bookingLoads'[c] : r \in SelectBookings
                    \/ Len(dataLoads'[c]) = Len(dataLoads[c]) + 1
           /\ \A r \in bookingLoads'[c] \ bookingLoads[c] : r \in SelectBookings
           /\ (bookingLoads'[c] # bookingLoads[c] /\ bookings'[c] # bookings[c]) =>
                 \E r \in bookingLoads[c] : ~r.error /\ bookings'[c] = r.data
           /\ dataLoads'[c] # dataLoads[c] =>
                 /\ machineTypes'[c] \in {machineTypes[c], OrderByName(tblMachineTypes)}
                 /\ machines'[c] \in {machines[c], OrderByName(tblMachines)}
                 /\ auditLogs'[c] \in {auditLogs[c], OrderByTimestampDesc(tblAuditLogs)}]_vars

\* A notification has been handled: the whole table is on its way to the
\* client, whose snapshot does not show the new booking yet.
C15_Witness ==
    \E c \in Subscribers :
        /\ feed[c] = <<>>
        /\ bookings[c] = <<>>
        /\ \E r \in bookingLoads[c] : ~r.error /\ r.data # <<>>

\* C16: when every loadData call of a client has ended and none of its
\* selects failed, the categories and machines of the snapshot are those
\* one of the calls has read, both from the same call, and no row is there
\* twice.
C16_RefreshLastWriteWins ==
    \A c \in Subscribers :
        (/\ dataLoads[c] # <<>>
         /\ \A k \in 1..Len(dataLoads[c]) :
               dataLoads[c][k].stage = "done" /\ dataLoads[c][k].ok)
            => /\ \E k \in 1..Len(dataLoads[c]) :
                     /\ machineTypes[c] = dataLoads[c][k].types
                     /\ machines[c] = dataLoads[c][k].machines
               /\ Cardinality(Ids(Range(machines[c]))) = Len(machines[c])
               /\ Cardinality(Ids(Range(machineTypes[c]))) = Len(machineTypes[c])

\* The store holds no machine without its category.
StoreIntact == \A m \in tblMachines : m.machine_type_id \in Ids(tblMachineTypes)

\* C17: the categories and the machines one loadData call installs come
\* from one state of the store: as the store never holds a machine without
\* its category, neither do the rows a call has read.
C17_RefreshReadsOneState ==
    StoreIntact =>
        \A c \in Subscribers : \A k \in 1..Len(dataLoads[c]) :
            (dataLoads[c][k].stage \in {"audit", "done"} /\ dataLoads[c][k].ok)
                => \A m \in Range(dataLoads[c][k].machines) :
                       m.machine_type_id \in Ids(Range(dataLoads[c][k].types))

\* Nothing is on its way: every notification delivered, every refresh and
\* every mutation ended.
Quiescent ==
    \A c \in Subscribers :
        feed[c] = <<>> /\ bookingLoads[c] = {} /\ pendingCall[c] = Null

\* C18: once nothing is on its way any more, and no select has failed, the
\* bookings every client shows are the bookings of the store.
C18_QuiescentSnapshotIsStore ==
    (Quiescent /\ ~loadFailed) =>
        \A c \in Subscribers : Range(bookings[c]) = tblBookings

NoDuplicateIds(s) == \A i, j \in 1..Len(s) : i # j => s[i].id # s[j].id

\* C19: no snapshot holds two entries with the same identifier, bookings
\* and machines alike.
C19_SnapshotIdsUnique ==
    \A c \in Clients : NoDuplicateIds(bookings[c]) /\ NoDuplicateIds(machines[c])

\* C20: the identifier generateMachineId returns for a category of the
\* snapshot is the identifier of no machine of the snapshot.
C20_GeneratedIdIsFresh ==
    \A c \in Clients : \A t \in SeenTypeIds(c) :
        generateMachineId(machines[c], t) \notin SeenMachineIds(c)

(***************************************************************************)
(* Properties of the error paths.                                          *)
(***************************************************************************)
\* C21: a mutation that ends with the store's error leaves the client's
\* bookings, machines and categories as they were; a mutation changes them
\* only when the store has accepted the write.
C21_RejectedLeavesSnapshot ==
    [][(lastCall'.op \in MutationOps /\ lastCall'.error # "none")
           => UNCHANGED <<bookings, machines, machineTypes>>]_vars

\* The store has refused a create for its identifier, with machines in the
\* client's snapshot.
C21_Witness ==
    /\ lastCall.op = "addMachine"
    /\ lastCall.error = "duplicate_key"
    /\ machines[1] # <<>>

\* C22: an account of the authentication service and its profile row
\* exist together or not at all, also after an addUser that has thrown.
C22_AccountHasProfile ==
    \A u \in UserIds : (u \in authUsers) <=> (u \in Ids(tblProfiles))

\* C23: a client without a session has no current user: from a completed
\* logout until the next sign-in the current user is null, whatever profile
\* loads of earlier calls are still in flight.
C23_LoggedOutUserIsNull ==
    \A c \in Clients : supabaseUser[c] = Null => user[c] = Null

====
